---- MODULE Spec2Model ----
(***************************************************************************)
(* Trade-offer calculator: tier classification, budget derivation, gift   *)
(* allocation, budget optimisation, ROI and the slider rebalancer.        *)
(*                                                                         *)
(* Money is fixed point: one dollar is UNIT money units (1e-4 dollar), so  *)
(* that every amount the program forms from a price table with prices in   *)
(* multiples of $0.10, whole ROI percentages and cash-back percentages in  *)
(* steps of 0.1 is an integer.  Floors are floors of the exact value; a    *)
(* round-to-nearest whose exact value is a tie yields either neighbour     *)
(* (the binary floating point value of a decimal tie lies on either side). *)
(***************************************************************************)
EXTENDS Integers, Sequences, FiniteSets, TLC

VARIABLES
    \* st.session_state of app.py, a record with one field per key
    session_state,
    \* where the current run of main() stands, and the user event it serves
    pc, event,
    \* the tier selectbox: its value and the options it was drawn with
    tier_select,
    \* the last core operation that ran, with the inputs it was given
    last_call,
    \* slider edits since the allocation was last initialised
    n_edit,
    \* the last direct call of a pure function of the core
    call

UNIT == 10 * 1000

HOOKAH_COST == 400
PACK_FOC_COST == 38
AF_POINT_COST == 1

None == "None"
RETAILER == "RETAILER"
TOBACCO_SHOP == "TOBACCO_SHOP"
CustomerType == {RETAILER, TOBACCO_SHOP}

Min(a, b) == IF a <= b THEN a ELSE b

-----------------------------------------------------------------------------
(* Exact arithmetic helpers: a * b / c without leaving 32-bit integers.    *)

\* One binary digit of the long multiplication below.
MulModDigit(h, a, bit, c) ==
    LET d == 2 * h[2] + bit * a
    IN  <<2 * h[1] + d \div c, d % c>>

RECURSIVE MulModStep(_, _, _)
\* <<q, r>> with a * b = q * c + r and 0 <= r < c, for 0 <= a < c < 2^29.
MulModStep(a, b, c) ==
    IF b = 0 THEN <<0, 0>>
    ELSE CHOOSE r \in {MulModDigit(h, a, b % 2, c) :
                          h \in {MulModStep(a, b \div 2, c)}} : TRUE

\* <<floor(a * b / c), (a * b) mod c>> for a, b >= 0 and c > 0.
MulDiv(a, b, c) ==
    LET lo == IF a <= b THEN a ELSE b
        hi == IF a <= b THEN b ELSE a
    IN  CHOOSE r \in {<<(hi \div c) * lo + h[1], h[2]>> :
                         h \in {MulModStep(hi % c, lo, c)}} : TRUE

\* The integers nearest to a * b / c: one, or the two neighbours of a tie.
RoundNearest(a, b, c) ==
    LET h == MulDiv(a, b, c)
    IN  IF 2 * h[2] < c THEN {h[1]}
        ELSE IF 2 * h[2] > c THEN {h[1] + 1}
        ELSE {h[1], h[1] + 1}

-----------------------------------------------------------------------------
(* algorithms.py                                                           *)

GiftNames == {"Pack FOC", "Hookah", "AF Points"}
Sizes == {"50g", "250g", "1kg"}

Gifts(pack, hookah, points) ==
    [g \in GiftNames |-> IF g = "Pack FOC" THEN pack
                         ELSE IF g = "Hookah" THEN hookah ELSE points]

\* A wrong eligibility test (any pack at all), to see the properties fail.
is_eligible_any_pack(quantities) ==
    quantities["50g"] + quantities["250g"] + quantities["1kg"] > 0

is_eligible(quantities) ==
    \/ quantities["50g"] >= 10
    \/ quantities["250g"] >= 3
    \/ quantities["1kg"] >= 2

weight_total(quantities) ==
    quantities["50g"] * 1 + quantities["250g"] * 5 + quantities["1kg"] * 20

\* Step 2 of recommend_gift: the Hookah count taken before the 70/30 split.
\* A wrong Hookah rule (the customer type is not looked at), to see the
\* properties fail.
hookah_count_any_customer(quantities, ctype, budget) ==
    IF budget >= 400 * UNIT
    THEN IF weight_total(quantities) > 100 /\ budget > 800 * UNIT
         THEN Min(2, budget \div (400 * UNIT))
         ELSE IF weight_total(quantities) > 50 THEN 1 ELSE 0
    ELSE 0

\* A wrong Hookah rule (no cap of 2), to see the properties fail.
hookah_count_uncapped(quantities, ctype, budget) ==
    IF ctype = TOBACCO_SHOP /\ budget >= 400 * UNIT
    THEN IF weight_total(quantities) > 100 /\ budget > 800 * UNIT
         THEN budget \div (400 * UNIT)
         ELSE IF weight_total(quantities) > 50 THEN 1 ELSE 0
    ELSE 0

hookah_count(quantities, ctype, budget) ==
    IF ctype = TOBACCO_SHOP /\ budget >= 400 * UNIT
    THEN IF weight_total(quantities) > 100 /\ budget > 800 * UNIT
         THEN Min(2, budget \div (400 * UNIT))
         ELSE IF weight_total(quantities) > 50 THEN 1 ELSE 0
    ELSE 0

\* A wrong recommend_gift (AF Points rounded up), to see the properties fail.
recommend_gift_rounding_up(order, ctype, budget) ==
    LET quantities == order.quantities
        hookah     == hookah_count(quantities, ctype, budget)
        rest       == budget - hookah * 400 * UNIT
    IN  IF ~is_eligible(quantities) THEN Gifts(0, 0, 0)
        ELSE Gifts((7 * rest + 10 * 38 * UNIT - 1) \div (10 * 38 * UNIT), hookah,
                   (3 * rest + 10 * UNIT - 1) \div (10 * UNIT))

recommend_gift(order, ctype, budget) ==
    LET quantities == order.quantities
        hookah     == hookah_count(quantities, ctype, budget)
        rest       == budget - hookah * 400 * UNIT
    IN  IF ~is_eligible(quantities) THEN Gifts(0, 0, 0)
        ELSE IF weight_total(quantities) > 0
        THEN Gifts((7 * rest) \div (10 * 38 * UNIT), hookah,
                   (3 * rest) \div (10 * UNIT))
        ELSE Gifts(0, 0, 0)

\* A wrong budget (the percentage read as a per-mille), to see the
\* properties fail.
calculate_budget_from_roi_per_mille(order, target_roi_percentage) ==
    MulDiv(target_roi_percentage, order.total_value, 1000)[1]

calculate_budget_from_roi(order, target_roi_percentage) ==
    MulDiv(target_roi_percentage, order.total_value, 100)[1]

\* Cost in money units of the unit-counted gifts of an allocation.
GiftCost(gifts) ==
    (gifts["Pack FOC"] * PACK_FOC_COST + gifts["Hookah"] * HOOKAH_COST
        + gifts["AF Points"] * AF_POINT_COST) * UNIT

\* A wrong top-up (the whole rest re-split, packs first, the recommended
\* points given up), to see the properties fail.
optimize_budget_points_to_packs(order, ctype, target_roi_percentage) ==
    LET budget == calculate_budget_from_roi(order, target_roi_percentage)
        gifts  == recommend_gift(order, ctype, budget)
        rest   == budget - gifts["Hookah"] * 400 * UNIT
        packs  == rest \div (38 * UNIT)
    IN  IF ~is_eligible(order.quantities) THEN Gifts(0, 0, 0)
        ELSE Gifts(packs, gifts["Hookah"],
                   (rest - packs * 38 * UNIT) \div UNIT)

\* A wrong optimize_budget (one pack more than the remainder buys), to see
\* the properties fail.
optimize_budget_one_more(order, ctype, target_roi_percentage) ==
    LET budget == calculate_budget_from_roi(order, target_roi_percentage)
        gifts  == recommend_gift(order, ctype, budget)
        remaining_budget == budget - GiftCost(gifts)
    IN  IF ~is_eligible(order.quantities) THEN Gifts(0, 0, 0)
        ELSE Gifts(gifts["Pack FOC"] + remaining_budget \div (38 * UNIT) + 1,
                   gifts["Hookah"], gifts["AF Points"])

optimize_budget(order, ctype, target_roi_percentage) ==
    LET budget == calculate_budget_from_roi(order, target_roi_percentage)
        gifts  == recommend_gift(order, ctype, budget)
        remaining_budget == budget - GiftCost(gifts)
        additional_packs ==
            IF remaining_budget > 38 * UNIT
            THEN remaining_budget \div (38 * UNIT) ELSE 0
        remaining2 == remaining_budget - additional_packs * 38 * UNIT
        additional_points ==
            IF remaining2 > 1 * UNIT THEN remaining2 \div UNIT ELSE 0
    IN  IF ~is_eligible(order.quantities) THEN Gifts(0, 0, 0)
        ELSE Gifts(gifts["Pack FOC"] + additional_packs, gifts["Hookah"],
                   gifts["AF Points"] + additional_points)

\* A wrong ROI (the gift cost over the order value net of the gifts), to see
\* the properties fail.
calculate_roi_on_net_value(order, gifts, budget) ==
    IF budget = 0 \/ order.total_value = 0 THEN {0}
    ELSE IF GiftCost(gifts) >= order.total_value THEN {0}
    ELSE RoundNearest(GiftCost(gifts), 100 * 100,
                      order.total_value - GiftCost(gifts))

\* A wrong ROI (Cash Back % added as percentage points), to see the
\* properties fail.
calculate_roi_with_cashback(order, gifts, budget) ==
    IF budget = 0 \/ order.total_value = 0 THEN {0}
    ELSE {r + (IF "Cash Back %" \in DOMAIN gifts
               THEN gifts["Cash Back %"] * 10 ELSE 0) :
             r \in RoundNearest(GiftCost(gifts), 100 * 100,
                                order.total_value)}

\* A wrong ROI (the share of the order value left after the gifts), to see the
\* properties fail.
calculate_roi_of_remainder(order, gifts, budget) ==
    IF budget = 0 \/ order.total_value = 0 THEN {0}
    ELSE IF GiftCost(gifts) >= order.total_value THEN {0}
    ELSE RoundNearest(order.total_value - GiftCost(gifts), 100 * 100,
                      order.total_value)

\* A wrong calculate_roi (truncated, not rounded), to see the properties fail.
calculate_roi_truncated(order, gifts, budget) ==
    IF budget = 0 \/ order.total_value = 0 THEN {0}
    ELSE {MulDiv(GiftCost(gifts), 100 * 100, order.total_value)[1]}

\* The values calculate_roi can return, in hundredths of a percent.
calculate_roi(order, gifts, budget) ==
    IF budget = 0 \/ order.total_value = 0 THEN {0}
    ELSE RoundNearest(GiftCost(gifts), 100 * 100, order.total_value)

-----------------------------------------------------------------------------
(* app.py: tier classification                                             *)

\* A wrong classification (the 1kg flag is ignored and 5000 g is enough), to
\* see the properties fail.
get_eligible_tier_by_weight_only(total_grams, has_1kg_order) ==
    IF total_grams < 5000 THEN None
    ELSE IF total_grams <= 60000 THEN "Silver"
    ELSE IF 66050 <= total_grams /\ total_grams <= 120000 THEN "Gold"
    ELSE IF 126050 <= total_grams /\ total_grams <= 240000 THEN "Diamond"
    ELSE IF total_grams >= 246050 THEN "Platinum"
    ELSE None

\* A wrong classification (Silver from 600 g instead of 6000 g), to see the
\* properties fail.
get_eligible_tier_from_600g(total_grams, has_1kg_order) ==
    IF total_grams < 600 THEN None
    ELSE IF 600 <= total_grams /\ total_grams <= 60000 THEN "Silver"
    ELSE IF 66050 <= total_grams /\ total_grams <= 120000
         THEN (IF has_1kg_order THEN "Gold" ELSE "Silver")
    ELSE IF 126050 <= total_grams /\ total_grams <= 240000
         THEN (IF has_1kg_order THEN "Diamond" ELSE "Silver")
    ELSE IF total_grams >= 246050
         THEN (IF has_1kg_order THEN "Platinum" ELSE "Silver")
    ELSE None

get_eligible_tier(total_grams, has_1kg_order) ==
    IF total_grams < 6000 THEN None
    ELSE IF 6000 <= total_grams /\ total_grams <= 60000 THEN "Silver"
    ELSE IF 66050 <= total_grams /\ total_grams <= 120000
         THEN (IF has_1kg_order THEN "Gold" ELSE "Silver")
    ELSE IF 126050 <= total_grams /\ total_grams <= 240000
         THEN (IF has_1kg_order THEN "Diamond" ELSE "Silver")
    ELSE IF total_grams >= 246050
         THEN (IF has_1kg_order THEN "Platinum" ELSE "Silver")
    ELSE None

-----------------------------------------------------------------------------
(* app.py: the session state and the handlers that change it               *)

\* A key that is not in st.session_state: a string key, a slider key, a dict.
Absent == "absent"
AbsentSlider == 0 - 1
AbsentDict == [absent |-> TRUE]
\* order_data = None, and "no offer found"
NoOrder == [none |-> TRUE]
NoOffer == [name |-> None]

AllGiftNames == {"Hookah", "Pack FOC", "AF Points", "Cash Back %"}

Sliders(hookah, pack, points, cashback) ==
    [g \in AllGiftNames |-> IF g = "Hookah" THEN hookah
                            ELSE IF g = "Pack FOC" THEN pack
                            ELSE IF g = "AF Points" THEN points ELSE cashback]

\* dict.get(key, 0)
Get(d, key) == IF key \in DOMAIN d THEN d[key] ELSE 0

\* st.session_state.get(key, 0) of a slider key
SliderGet(v) == IF v = AbsentSlider THEN 0 ELSE v

Quantities(q50, q250, q1kg) ==
    [s \in Sizes |-> IF s = "50g" THEN q50 ELSE IF s = "250g" THEN q250 ELSE q1kg]

\* The price table (Prices.csv), in money units per pack.
price_data ==
    [s \in Sizes |-> IF s = "50g" THEN 88000
                     ELSE IF s = "250g" THEN 403000 ELSE 1455000]

\* utils.generate_order_summary: total_value = sum of count * price.
generate_order_summary(prices, quantities) ==
    [quantities  |-> quantities,
     total_value |-> quantities["50g"] * prices["50g"]
                       + quantities["250g"] * prices["250g"]
                       + quantities["1kg"] * prices["1kg"]]

\* utils.is_eligible_for_gift: the pack-count gate of the gift section.
is_eligible_for_gift(order) == is_eligible(order.quantities)

total_grams(quantities) ==
    quantities["50g"] * 50 + quantities["250g"] * 250 + quantities["1kg"] * 1000

\* Target ROI percentage of the offer update_gifts builds for a tier.
\* A wrong ROI table (every tier one step up), to see the properties fail.
TierRoi_one_step_up(name) ==
    IF name = "Silver" THEN 7 ELSE IF name = "Gold" THEN 9
    ELSE IF name = "Diamond" THEN 13 ELSE 15

TierRoi(name) ==
    IF name = "Silver" THEN 5 ELSE IF name = "Gold" THEN 7
    ELSE IF name = "Diamond" THEN 9 ELSE 13

\* A wrong offer list (a Silver offer whatever the tier), to see the
\* properties fail.
OfferedTiers_silver_always(tier) ==
    IF tier = "Gold" THEN <<"Silver", "Gold">>
    ELSE IF tier = "Diamond" THEN <<"Silver", "Gold", "Diamond">>
    ELSE IF tier = "Platinum" THEN <<"Silver", "Gold", "Diamond", "Platinum">>
    ELSE <<"Silver">>

\* The tiers whose "if eligible_tier == ..." block of update_gifts runs.
OfferedTiers(tier) ==
    IF tier = "Silver" THEN <<"Silver">>
    ELSE IF tier = "Gold" THEN <<"Silver", "Gold">>
    ELSE IF tier = "Diamond" THEN <<"Silver", "Gold", "Diamond">>
    ELSE IF tier = "Platinum" THEN <<"Silver", "Gold", "Diamond", "Platinum">>
    ELSE <<>>

\* One Offer as update_gifts fills it; actual_roi in hundredths of a percent.
MakeOffer(order, ctype, name, roi) ==
    [name           |-> name,
     roi_percentage |-> TierRoi(name),
     budget         |-> calculate_budget_from_roi(order, TierRoi(name)),
     gifts          |-> optimize_budget(order, ctype, TierRoi(name)),
     actual_roi     |-> roi]

OfferRoiChoices(order, ctype, name) ==
    calculate_roi(order, optimize_budget(order, ctype, TierRoi(name)),
                  calculate_budget_from_roi(order, TierRoi(name)))

\* The first offer named tier, or NoOffer (the "for offer in offers" loops).
FindOffer(offs, tier) ==
    IF \E i \in 1..Len(offs) : offs[i].name = tier
    THEN offs[CHOOSE i \in 1..Len(offs) :
                 /\ offs[i].name = tier
                 /\ \A j \in 1..(i - 1) : offs[j].name # tier]
    ELSE NoOffer

OfferNames(offs) == [i \in 1..Len(offs) |-> offs[i].name]

-----------------------------------------------------------------------------
(* app.py: recalculate_gifts.  Cash Back % is held in tenths of a percent. *)

\* costs = {...}: the cost of each gift type at the given slider values.
GiftCosts(values, order_value) ==
    [g \in AllGiftNames |->
        IF g = "Hookah" THEN values[g] * 400 * UNIT
        ELSE IF g = "Pack FOC" THEN values[g] * 38 * UNIT
        ELSE IF g = "AF Points" THEN values[g] * 1 * UNIT
        ELSE MulDiv(values[g], order_value, 1000)[1]]

\* round(min(30, a * b / c), 1) in tenths, where a * b / c is in tenths.
CashbackTenths(a, b, c) ==
    IF MulDiv(a, b, c)[1] >= 300 THEN {300} ELSE RoundNearest(a, b, c)

\* A wrong zeroing (nothing is zeroed), to see the properties fail.
ZeroOthers_nothing(values, changed) == values

\* "If we've exceeded the budget, set other gifts to 0".
ZeroOthers(values, changed) ==
    [g \in AllGiftNames |-> IF g = changed THEN values[g] ELSE 0]

\* A wrong priority branch (no cap of 2 on the Hookah), to see the properties
\* fail.
PriorityAllocation_hookah_uncapped(values, changed, remaining_budget, order_value, ctype) ==
    LET others == AllGiftNames \ {changed}
        takeH  == /\ "Hookah" \in others
                  /\ ctype = TOBACCO_SHOP
                  /\ remaining_budget >= 400 * UNIT
        h      == IF takeH THEN remaining_budget \div (400 * UNIT)
                  ELSE values["Hookah"]
        r1     == IF takeH THEN remaining_budget - h * 400 * UNIT
                  ELSE remaining_budget
        takeP  == "Pack FOC" \in others /\ r1 >= 38 * UNIT
        p      == IF takeP THEN r1 \div (38 * UNIT) ELSE values["Pack FOC"]
        r2     == IF takeP THEN r1 - p * 38 * UNIT ELSE r1
        takeA  == "AF Points" \in others /\ r2 > 0
        a      == IF takeA THEN r2 \div UNIT ELSE values["AF Points"]
        r3     == IF takeA THEN r2 - a * UNIT ELSE r2
        takeC  == "Cash Back %" \in others /\ r3 > 0 /\ order_value > 0
        cs     == IF takeC THEN CashbackTenths(r3, 1000, order_value)
                  ELSE {values["Cash Back %"]}
    IN  {Sliders(h, p, a, c) : c \in cs}

\* A wrong priority branch (AF Points filled before Pack FOC), to see the
\* properties fail.
PriorityAllocation_points_first(values, changed, remaining_budget, order_value, ctype) ==
    LET others == AllGiftNames \ {changed}
        takeH  == /\ "Hookah" \in others
                  /\ ctype = TOBACCO_SHOP
                  /\ remaining_budget >= 400 * UNIT
        h      == IF takeH THEN Min(remaining_budget \div (400 * UNIT), 2)
                  ELSE values["Hookah"]
        r1     == IF takeH THEN remaining_budget - h * 400 * UNIT
                  ELSE remaining_budget
        takeA  == "AF Points" \in others /\ r1 > 0
        a      == IF takeA THEN r1 \div UNIT ELSE values["AF Points"]
        r2     == IF takeA THEN r1 - a * UNIT ELSE r1
        takeP  == "Pack FOC" \in others /\ r2 >= 38 * UNIT
        p      == IF takeP THEN r2 \div (38 * UNIT) ELSE values["Pack FOC"]
        r3     == IF takeP THEN r2 - p * 38 * UNIT ELSE r2
        takeC  == "Cash Back %" \in others /\ r3 > 0 /\ order_value > 0
        cs     == IF takeC THEN CashbackTenths(r3, 1000, order_value)
                  ELSE {values["Cash Back %"]}
    IN  {Sliders(h, p, a, c) : c \in cs}

\* A wrong priority branch (the changed gift is allocated like the others),
\* to see the properties fail.
PriorityAllocation_all_gifts(values, changed, remaining_budget, order_value, ctype) ==
    LET others == AllGiftNames
        takeH  == /\ "Hookah" \in others
                  /\ ctype = TOBACCO_SHOP
                  /\ remaining_budget >= 400 * UNIT
        h      == IF takeH THEN Min(remaining_budget \div (400 * UNIT), 2)
                  ELSE values["Hookah"]
        r1     == IF takeH THEN remaining_budget - h * 400 * UNIT
                  ELSE remaining_budget
        takeP  == "Pack FOC" \in others /\ r1 >= 38 * UNIT
        p      == IF takeP THEN r1 \div (38 * UNIT) ELSE values["Pack FOC"]
        r2     == IF takeP THEN r1 - p * 38 * UNIT ELSE r1
        takeA  == "AF Points" \in others /\ r2 > 0
        a      == IF takeA THEN r2 \div UNIT ELSE values["AF Points"]
        r3     == IF takeA THEN r2 - a * UNIT ELSE r2
        takeC  == "Cash Back %" \in others /\ r3 > 0 /\ order_value > 0
        cs     == IF takeC THEN CashbackTenths(r3, 1000, order_value)
                  ELSE {values["Cash Back %"]}
    IN  {Sliders(h, p, a, c) : c \in cs}

\* "Simple prioritized allocation": Hookah, Pack FOC, AF Points, Cash Back.
PriorityAllocation(values, changed, remaining_budget, order_value, ctype) ==
    LET others == AllGiftNames \ {changed}
        takeH  == /\ "Hookah" \in others
                  /\ ctype = TOBACCO_SHOP
                  /\ remaining_budget >= 400 * UNIT
        h      == IF takeH THEN Min(remaining_budget \div (400 * UNIT), 2)
                  ELSE values["Hookah"]
        r1     == IF takeH THEN remaining_budget - h * 400 * UNIT
                  ELSE remaining_budget
        takeP  == "Pack FOC" \in others /\ r1 >= 38 * UNIT
        p      == IF takeP THEN r1 \div (38 * UNIT) ELSE values["Pack FOC"]
        r2     == IF takeP THEN r1 - p * 38 * UNIT ELSE r1
        takeA  == "AF Points" \in others /\ r2 > 0
        a      == IF takeA THEN r2 \div UNIT ELSE values["AF Points"]
        r3     == IF takeA THEN r2 - a * UNIT ELSE r2
        takeC  == "Cash Back %" \in others /\ r3 > 0 /\ order_value > 0
        cs     == IF takeC THEN CashbackTenths(r3, 1000, order_value)
                  ELSE {values["Cash Back %"]}
    IN  {Sliders(h, p, a, c) : c \in cs}

\* A wrong proportional branch (equal thirds of the remaining budget), to
\* see the properties fail.
ProportionalAllocation_equal_shares(values, changed, remaining_budget, order_value) ==
    LET others == AllGiftNames \ {changed}
        costs  == GiftCosts(values, order_value)
        total_other_cost ==
            costs["Hookah"] + costs["Pack FOC"] + costs["AF Points"]
                + costs["Cash Back %"] - costs[changed]
        allocated(g) == remaining_budget \div 3
        h  == IF "Hookah" \in others
              THEN IF allocated("Hookah") >= 400 * UNIT
                   THEN Min(allocated("Hookah") \div (400 * UNIT), 2) ELSE 0
              ELSE values["Hookah"]
        p  == IF "Pack FOC" \in others
              THEN IF allocated("Pack FOC") >= 38 * UNIT
                   THEN allocated("Pack FOC") \div (38 * UNIT) ELSE 0
              ELSE values["Pack FOC"]
        a  == IF "AF Points" \in others
              THEN allocated("AF Points") \div UNIT
              ELSE values["AF Points"]
        cs == IF "Cash Back %" \in others /\ order_value > 0
              THEN CashbackTenths(allocated("Cash Back %"), 1000,
                                  order_value)
              ELSE {values["Cash Back %"]}
    IN  {Sliders(h, p, a, c) : c \in cs}

\* A wrong proportional branch (the other gifts keep their values), to see
\* the properties fail.
ProportionalAllocation_unscaled(values, changed, remaining_budget, order_value) ==
    {values}

\* "Distribute remaining budget proportionally": gift g is allocated
\* remaining_budget * costs[g] / total_other_cost.  For Cash Back %,
\* allocated / order_value * 100 = remaining_budget * value / total_other_cost
\* because costs["Cash Back %"] = value / 100 * order_value.
ProportionalAllocation(values, changed, remaining_budget, order_value) ==
    LET others == AllGiftNames \ {changed}
        costs  == GiftCosts(values, order_value)
        total_other_cost ==
            costs["Hookah"] + costs["Pack FOC"] + costs["AF Points"]
                + costs["Cash Back %"] - costs[changed]
        allocated(g) == MulDiv(remaining_budget, costs[g], total_other_cost)[1]
        h  == IF "Hookah" \in others
              THEN IF allocated("Hookah") >= 400 * UNIT
                   THEN Min(allocated("Hookah") \div (400 * UNIT), 2) ELSE 0
              ELSE values["Hookah"]
        p  == IF "Pack FOC" \in others
              THEN IF allocated("Pack FOC") >= 38 * UNIT
                   THEN allocated("Pack FOC") \div (38 * UNIT) ELSE 0
              ELSE values["Pack FOC"]
        a  == IF "AF Points" \in others
              THEN allocated("AF Points") \div UNIT
              ELSE values["AF Points"]
        cs == IF "Cash Back %" \in others /\ order_value > 0
              THEN CashbackTenths(remaining_budget, values["Cash Back %"],
                                  total_other_cost)
              ELSE {values["Cash Back %"]}
    IN  {Sliders(h, p, a, c) : c \in cs}

\* The body of recalculate_gifts once the selected offer is found: the
\* possible new slider values, and whether it returned before the
\* "Update the adjusted gifts dictionary" statement.
Rebalance(values, changed, original_budget, order_value, ctype) ==
    LET costs == GiftCosts(values, order_value)
        remaining_budget == original_budget - costs[changed]
        total_other_cost ==
            costs["Hookah"] + costs["Pack FOC"] + costs["AF Points"]
                + costs["Cash Back %"] - costs[changed]
    IN  IF remaining_budget <= 0
        THEN {[values |-> ZeroOthers(values, changed), early |-> TRUE]}
        ELSE IF total_other_cost <= 0
        THEN {[values |-> w, early |-> FALSE] :
                 w \in PriorityAllocation(values, changed, remaining_budget,
                                          order_value, ctype)}
        ELSE {[values |-> w, early |-> FALSE] :
                 w \in ProportionalAllocation(values, changed,
                                              remaining_budget, order_value)}

-----------------------------------------------------------------------------
(* Inputs of the session: orders typed into the quantity boxes and values  *)
(* the sliders are moved to.                                               *)

MaxEdits == 2

OrderChoices ==
    { Quantities(9, 2, 1),    \* below every pack-count threshold
      Quantities(119, 0, 0),  \* 5950 g: pack counts pass, weight does not
      Quantities(120, 0, 0),  \* 6000 g: Silver
      Quantities(0, 0, 60),   \* 60000 g: Silver
      Quantities(0, 0, 61),   \* 61000 g: between the Silver and Gold ranges
      Quantities(1, 0, 66),   \* 66050 g with a 1kg pack: Gold
      Quantities(1321, 0, 0), \* 66050 g without a 1kg pack: Silver
      Quantities(1, 0, 126),  \* 126050 g: Diamond
      Quantities(1, 0, 246) } \* 246050 g: Platinum

SliderValues(g) ==
    IF g = "Hookah" THEN 0..2
    ELSE IF g = "Pack FOC" THEN {0, 2, 30}
    ELSE IF g = "AF Points" THEN {0, 10, 1000}
    ELSE {0, 5, 300}

NoEvent == [kind |-> "none", value |-> None]
Event(kind, value) == [kind |-> kind, value |-> value]

NoCallInfo ==
    [op |-> "none", changed |-> None, before |-> Sliders(0, 0, 0, 0),
     found |-> FALSE, early |-> FALSE, edited |-> FALSE]

NoCall == [fn |-> "none"]

\* current_values = {...} of recalculate_gifts
CurrentValues(ss) ==
    Sliders(SliderGet(ss.hookah_slider), SliderGet(ss.pack_foc_slider),
            SliderGet(ss.af_points_slider), SliderGet(ss.cashback_slider))

\* The sliders of ss hold an allocation other than original_gifts.
Edited(ss) ==
    /\ ss.original_gifts # AbsentDict
    /\ \E g \in AllGiftNames :
          CurrentValues(ss)[g] # Get(ss.original_gifts, g)

WithSliders(ss, values) ==
    [ss EXCEPT !.hookah_slider = values["Hookah"],
               !.pack_foc_slider = values["Pack FOC"],
               !.af_points_slider = values["AF Points"],
               !.cashback_slider = values["Cash Back %"]]

-----------------------------------------------------------------------------
(* The handlers of app.py as functions of the session state.               *)

\* A wrong main() (the reset_allocation block is missing), to see the
\* properties fail.
TopOfMain_without_allocation_reset(ss, ev) ==
    LET s1 == IF ss.reset_triggered
              THEN [ss EXCEPT !.hookah_slider = AbsentSlider,
                              !.pack_foc_slider = AbsentSlider,
                              !.af_points_slider = AbsentSlider,
                              !.cashback_slider = AbsentSlider,
                              !.reset_triggered = FALSE]
              ELSE ss
        s2 == s1
        dflt(v) == IF v = AbsentSlider THEN 0 ELSE v
        zeros(d) == IF d = AbsentDict THEN Sliders(0, 0, 0, 0) ELSE d
    IN  [s2 EXCEPT !.hookah_slider = dflt(@),
                   !.pack_foc_slider = dflt(@),
                   !.af_points_slider = dflt(@),
                   !.cashback_slider = dflt(@),
                   !.last_offer_tier = IF @ = Absent THEN None ELSE @,
                   !.adjusted_gifts = zeros(@),
                   !.original_gifts = zeros(@),
                   !.customer_type =
                       IF ev.kind = "customer" THEN ev.value ELSE @]

\* main(): the two reset blocks, the defaults of missing keys, and the
\* customer type selectbox.
TopOfMain(ss, ev) ==
    LET s1 == IF ss.reset_triggered
              THEN [ss EXCEPT !.hookah_slider = AbsentSlider,
                              !.pack_foc_slider = AbsentSlider,
                              !.af_points_slider = AbsentSlider,
                              !.cashback_slider = AbsentSlider,
                              !.reset_triggered = FALSE]
              ELSE ss
        s2 == IF s1.reset_allocation
              THEN [s1 EXCEPT !.hookah_slider = Get(s1.temp, "Hookah"),
                              !.pack_foc_slider = Get(s1.temp, "Pack FOC"),
                              !.af_points_slider = Get(s1.temp, "AF Points"),
                              !.cashback_slider = Get(s1.temp, "Cash Back %"),
                              !.adjusted_gifts = s1.original_gifts,
                              !.reset_allocation = FALSE,
                              !.temp = AbsentDict]
              ELSE s1
        dflt(v) == IF v = AbsentSlider THEN 0 ELSE v
        zeros(d) == IF d = AbsentDict THEN Sliders(0, 0, 0, 0) ELSE d
    IN  [s2 EXCEPT !.hookah_slider = dflt(@),
                   !.pack_foc_slider = dflt(@),
                   !.af_points_slider = dflt(@),
                   !.cashback_slider = dflt(@),
                   !.last_offer_tier = IF @ = Absent THEN None ELSE @,
                   !.adjusted_gifts = zeros(@),
                   !.original_gifts = zeros(@),
                   !.customer_type =
                       IF ev.kind = "customer" THEN ev.value ELSE @]

reset_calculator(ss) ==
    [ss EXCEPT !.reset_triggered = TRUE,
               !.order_data = NoOrder,
               !.eligible_tier = Absent,
               !.offers = <<>>,
               !.last_offer_tier = Absent,
               !.adjusted_gifts = AbsentDict,
               !.original_gifts = AbsentDict]

\* A wrong update_gifts (the four slider keys are not deleted), to see the
\* properties fail.
update_gifts_keeping_sliders(ss) ==
    IF ss.order_data = NoOrder THEN {ss}
    ELSE
    LET order == ss.order_data
        has_1kg_order == order.quantities["1kg"] > 0
        tier  == get_eligible_tier(total_grams(order.quantities), has_1kg_order)
        names == OfferedTiers(tier)
        choices(i) == IF i <= Len(names)
                      THEN OfferRoiChoices(order, ss.customer_type, names[i])
                      ELSE {0}
        roiSets == choices(1) \X choices(2) \X choices(3) \X choices(4)
    IN  {[ss EXCEPT !.eligible_tier = tier,
                    !.offers = [i \in 1..Len(names) |->
                                   MakeOffer(order, ss.customer_type, names[i],
                                             rois[i])],
                    !.last_offer_tier = Absent,
                    !.adjusted_gifts = AbsentDict,
                    !.original_gifts = AbsentDict] : rois \in roiSets}

\* The session states update_gifts can leave (one per rounding of the ROIs).
update_gifts(ss) ==
    IF ss.order_data = NoOrder THEN {ss}
    ELSE
    LET order == ss.order_data
        has_1kg_order == order.quantities["1kg"] > 0
        tier  == get_eligible_tier(total_grams(order.quantities), has_1kg_order)
        names == OfferedTiers(tier)
        choices(i) == IF i <= Len(names)
                      THEN OfferRoiChoices(order, ss.customer_type, names[i])
                      ELSE {0}
        roiSets == choices(1) \X choices(2) \X choices(3) \X choices(4)
    IN  {[ss EXCEPT !.eligible_tier = tier,
                    !.offers = [i \in 1..Len(names) |->
                                   MakeOffer(order, ss.customer_type, names[i],
                                             rois[i])],
                    !.last_offer_tier = Absent,
                    !.adjusted_gifts = AbsentDict,
                    !.original_gifts = AbsentDict,
                    !.hookah_slider = AbsentSlider,
                    !.pack_foc_slider = AbsentSlider,
                    !.af_points_slider = AbsentSlider,
                    !.cashback_slider = AbsentSlider] : rois \in roiSets}

\* recalculate_gifts(changed_gift_type): the outcomes [ss, found, early],
\* found = a selected offer was found, early = it returned before the
\* "Update the adjusted gifts dictionary" statement.
recalculate_gifts(ss, changed_gift_type) ==
    LET selected_offer == FindOffer(ss.offers, ss.last_offer_tier)
        found == /\ ss.last_offer_tier # Absent
                 /\ ss.adjusted_gifts # AbsentDict
                 /\ selected_offer # NoOffer
    IN  IF ~found THEN {[ss |-> ss, found |-> FALSE, early |-> TRUE]}
        ELSE {[ss |-> IF out.early THEN WithSliders(ss, out.values)
                      ELSE [WithSliders(ss, out.values)
                               EXCEPT !.adjusted_gifts = out.values],
               found |-> TRUE, early |-> out.early] :
                 out \in Rebalance(CurrentValues(ss), changed_gift_type,
                                   selected_offer.budget,
                                   ss.order_data.total_value, ss.customer_type)}

\* The gift section of main(): the tier selectbox, "Initialize or update
\* adjusted gifts in session state", and "Reset to Original Allocation".
\* rerun = the reset button was clicked and called st.rerun().
GiftSection(ss, ts, ev) ==
    LET shown == /\ ss.order_data # NoOrder
                 /\ is_eligible_for_gift(ss.order_data)
                 /\ ss.offers # <<>>
        options == OfferNames(ss.offers)
        kept == options = ts.options
        selected == IF kept /\ ev.kind = "select" THEN ev.value
                    ELSE IF kept THEN ts.value
                    ELSE options[1]
        selected_offer == FindOffer(ss.offers, selected)
        init == ss.last_offer_tier = Absent \/ ss.last_offer_tier # selected
        s1 == IF init
              THEN [ss EXCEPT !.last_offer_tier = selected,
                              !.original_gifts = selected_offer.gifts,
                              !.adjusted_gifts = selected_offer.gifts,
                              !.hookah_slider = Get(selected_offer.gifts, "Hookah"),
                              !.pack_foc_slider = Get(selected_offer.gifts, "Pack FOC"),
                              !.af_points_slider = Get(selected_offer.gifts, "AF Points"),
                              !.cashback_slider = Get(selected_offer.gifts, "Cash Back %")]
              ELSE ss
        reset == ev.kind = "reset_alloc"
        s2 == IF reset
              THEN [s1 EXCEPT !.reset_allocation = TRUE,
                              !.temp = Sliders(Get(s1.original_gifts, "Hookah"),
                                               Get(s1.original_gifts, "Pack FOC"),
                                               Get(s1.original_gifts, "AF Points"),
                                               Get(s1.original_gifts, "Cash Back %"))]
              ELSE s1
    IN  IF shown
        THEN [ss |-> s2, ts |-> [value |-> selected, options |-> options],
              rerun |-> reset]
        ELSE [ss |-> ss, ts |-> [value |-> None, options |-> <<>>],
              rerun |-> FALSE]

-----------------------------------------------------------------------------
vars == <<session_state, pc, event, tier_select, last_call, n_edit, call>>

\* The session state when the first run of main() has ended.
Init ==
    /\ session_state =
           [order_data       |-> NoOrder,
            customer_type    |-> RETAILER,
            eligible_tier    |-> Absent,
            offers           |-> <<>>,
            last_offer_tier  |-> None,
            adjusted_gifts   |-> Sliders(0, 0, 0, 0),
            original_gifts   |-> Sliders(0, 0, 0, 0),
            hookah_slider    |-> 0,
            pack_foc_slider  |-> 0,
            af_points_slider |-> 0,
            cashback_slider  |-> 0,
            reset_triggered  |-> FALSE,
            reset_allocation |-> FALSE,
            temp             |-> AbsentDict]
    /\ pc = "idle"
    /\ event = NoEvent
    /\ tier_select = [value |-> None, options |-> <<>>]
    /\ last_call = NoCallInfo
    /\ n_edit = 0
    /\ call = NoCall

\* A run of main() from its first line to the end of the gift section.
RunMain(ev, edits) ==
    LET r == GiftSection(TopOfMain(session_state, ev), tier_select, ev)
    IN  /\ session_state' = r.ss
        /\ tier_select' = r.ts
        /\ pc' = IF r.rerun THEN "top" ELSE "idle"
        /\ event' = NoEvent
        /\ last_call' = IF session_state.reset_allocation
                        THEN [NoCallInfo EXCEPT
                                 !.op = "reset_allocation",
                                 !.edited = Edited(session_state)]
                        ELSE NoCallInfo
        /\ n_edit' = edits
        /\ UNCHANGED call

\* "Calculate Order": the run reaches update_gifts() and has executed it.
ClickCalculate ==
    /\ pc = "idle"
    /\ \E q \in OrderChoices :
         LET ev == Event("calc", None)
             s1 == [TopOfMain(session_state, ev) EXCEPT
                       !.order_data = generate_order_summary(price_data, q)]
         IN  /\ session_state' \in update_gifts(s1)
             /\ event' = ev
    /\ pc' = "gifts"
    /\ last_call' = [NoCallInfo EXCEPT !.op = "update_gifts",
                                       !.edited = Edited(session_state)]
    /\ n_edit' = 0
    /\ UNCHANGED <<tier_select, call>>

\* The rest of a run that executed update_gifts().
GiftSectionAfterCalculate ==
    /\ pc = "gifts"
    /\ LET r == GiftSection(session_state, tier_select, event)
       IN  /\ session_state' = r.ss
           /\ tier_select' = r.ts
    /\ pc' = "idle"
    /\ event' = NoEvent
    /\ last_call' = NoCallInfo
    /\ UNCHANGED <<n_edit, call>>

SelectCustomerType ==
    /\ pc = "idle"
    /\ \E ct \in CustomerType \ {session_state.customer_type} :
           RunMain(Event("customer", ct), n_edit)

SelectTier ==
    /\ pc = "idle"
    /\ \E i \in 1..Len(tier_select.options) :
           /\ tier_select.options[i] # tier_select.value
           /\ RunMain(Event("select", tier_select.options[i]), 0)

\* "Reset to Original Allocation": sets the flag and calls st.rerun().
ClickResetAllocation ==
    /\ pc = "idle"
    /\ tier_select.options # <<>>
    /\ RunMain(Event("reset_alloc", None), 0)

\* "Reset Calculation": reset_calculator() and st.rerun().
ClickResetCalculation ==
    /\ pc = "idle"
    /\ session_state' =
           reset_calculator(TopOfMain(session_state, Event("reset_calc", None)))
    /\ pc' = "top"
    /\ event' = NoEvent
    /\ last_call' = NoCallInfo
    /\ n_edit' = 0
    /\ UNCHANGED <<tier_select, call>>

\* A slider is moved: the widget stores the new value under its key, then
\* its on_change callback runs recalculate_gifts(changed_gift_type).
RecalculateGifts ==
    /\ pc = "idle"
    /\ n_edit < MaxEdits
    /\ tier_select.options # <<>>
    /\ \E g \in AllGiftNames : \E v \in SliderValues(g) :
        LET before == [CurrentValues(session_state) EXCEPT ![g] = v]
        IN  /\ g = "Hookah" => session_state.customer_type = TOBACCO_SHOP
            /\ v # CurrentValues(session_state)[g]
            /\ \E out \in recalculate_gifts(WithSliders(session_state, before), g) :
                /\ session_state' = out.ss
                /\ last_call' = [op |-> "recalculate_gifts", changed |-> g,
                                 before |-> before, found |-> out.found,
                                 early |-> out.early, edited |-> TRUE]
    /\ event' = Event("slider", None)
    /\ pc' = "top"
    /\ n_edit' = n_edit + 1
    /\ UNCHANGED <<tier_select, call>>

\* The run of main() that follows a callback or a call of st.rerun().
Rerun ==
    /\ pc = "top"
    /\ RunMain(NoEvent, n_edit)

Next ==
    \/ ClickCalculate
    \/ GiftSectionAfterCalculate
    \/ SelectCustomerType
    \/ SelectTier
    \/ ClickResetAllocation
    \/ ClickResetCalculation
    \/ RecalculateGifts
    \/ Rerun

Spec == Init /\ [][Next]_vars
-----------------------------------------------------------------------------
(* Direct calls of the pure functions of algorithms.py and of              *)
(* get_eligible_tier, each on inputs drawn from the sets below.            *)

MaxBudgetK == 180
MaxRoi == 13
MaxGramK == 5000

\* Budgets in money units: a grid of $7.30 steps, the Hookah thresholds, and
\* the budgets $20 and $1000.
BudgetStep == 73000
BudgetSet ==
    {k * BudgetStep : k \in 0..MaxBudgetK}
        \cup {h * 400 * UNIT + d : h \in 1..3, d \in {0 - 1, 0, 1}}
        \cup {20 * UNIT, 1000 * UNIT}

\* Pack counts on both sides of every eligibility and weight threshold, and
\* two orders of total value $2200.00 and $1080.00.
AlgQuantities ==
    {Quantities(a, b, c) : a \in {0, 8, 9, 10, 51}, b \in {0, 2, 3, 11},
                           c \in {0, 1, 2, 5, 60}}
        \cup {Quantities(3, 7, 13), Quantities(8, 7, 5)}

AlgOrders == {generate_order_summary(price_data, q) : q \in AlgQuantities}

RoiSet == 0..MaxRoi

\* Allocations handed to calculate_roi.
GiftSamples ==
    {Gifts(p, h, a) : p \in {0, 1, 20}, h \in 0..2, a \in {0, 1, 11, 500}}

\* Allocations that also carry a Cash Back % entry (in tenths of a percent),
\* as the slider values of the gift section do.
CashbackGiftSamples ==
    {g @@ ("Cash Back %" :> c) :
        g \in {Gifts(p, h, a) : p \in {0, 20}, h \in {0, 1}, a \in {0, 11}},
        c \in {0, 5, 300}}

\* Every pack weighs a multiple of 50 g, so total_grams is a multiple of 50.
GramStep == 50
GramSet == {k * GramStep : k \in 0..MaxGramK}

CallRecommendGift ==
    /\ call = NoCall
    /\ \E order \in AlgOrders, ctype \in CustomerType, budget \in BudgetSet :
         call' = [fn |-> "recommend_gift", order |-> order, ctype |-> ctype,
                  budget |-> budget,
                  result |-> recommend_gift(order, ctype, budget)]
    /\ UNCHANGED <<session_state, pc, event, tier_select, last_call, n_edit>>

CallOptimizeBudget ==
    /\ call = NoCall
    /\ \E order \in AlgOrders, ctype \in CustomerType, roi \in RoiSet :
         call' = [fn |-> "optimize_budget", order |-> order, ctype |-> ctype,
                  roi |-> roi,
                  result |-> optimize_budget(order, ctype, roi)]
    /\ UNCHANGED <<session_state, pc, event, tier_select, last_call, n_edit>>

CallCalculateBudgetFromRoi ==
    /\ call = NoCall
    /\ \E order \in AlgOrders, roi \in RoiSet :
         call' = [fn |-> "calculate_budget_from_roi", order |-> order,
                  roi |-> roi,
                  result |-> calculate_budget_from_roi(order, roi)]
    /\ UNCHANGED <<session_state, pc, event, tier_select, last_call, n_edit>>

CallCalculateRoi ==
    /\ call = NoCall
    /\ \E order \in AlgOrders, gifts \in GiftSamples \cup CashbackGiftSamples,
          budget \in {0, BudgetStep} :
         \E r \in calculate_roi(order, gifts, budget) :
           call' = [fn |-> "calculate_roi", order |-> order, gifts |-> gifts,
                    budget |-> budget, result |-> r]
    /\ UNCHANGED <<session_state, pc, event, tier_select, last_call, n_edit>>

CallGetEligibleTier ==
    /\ call = NoCall
    /\ \E grams \in GramSet, has_1kg_order \in BOOLEAN :
         call' = [fn |-> "get_eligible_tier", total_grams |-> grams,
                  has_1kg_order |-> has_1kg_order,
                  result |-> get_eligible_tier(grams, has_1kg_order)]
    /\ UNCHANGED <<session_state, pc, event, tier_select, last_call, n_edit>>

NextAlg ==
    \/ CallRecommendGift
    \/ CallOptimizeBudget
    \/ CallCalculateBudgetFromRoi
    \/ CallCalculateRoi
    \/ CallGetEligibleTier

SpecAlg == Init /\ [][NextAlg]_vars

-----------------------------------------------------------------------------
(* Properties of the direct calls (SpecAlg).                               *)

\* floor(roi / 100 * total_value) in money units, by plain arithmetic.
RoiShare(roi, total_value) ==
    roi * (total_value \div 100) + (roi * (total_value % 100)) \div 100

Ineligible(quantities) ==
    /\ quantities["50g"] < 10
    /\ quantities["250g"] < 3
    /\ quantities["1kg"] < 2

\* C1: for every order, customer type and budget >= 0, the allocation
\* recommend_gift returns costs at most the budget:
\* Pack FOC * 38 + Hookah * 400 + AF Points * 1 <= budget.
C1_RecommendWithinBudget ==
    call.fn = "recommend_gift" =>
        /\ call.budget >= 0
        /\ (call.result["Pack FOC"] * 38 + call.result["Hookah"] * 400
               + call.result["AF Points"] * 1) * UNIT <= call.budget

\* A Tobacco Shop call that took two Hookahs, packs and points.
C1_Witness ==
    /\ call.fn = "recommend_gift"
    /\ call.ctype = TOBACCO_SHOP
    /\ call.result["Hookah"] = 2
    /\ call.result["Pack FOC"] > 0
    /\ call.result["AF Points"] > 0

\* C2: for every order, customer type and target ROI percentage >= 0, the
\* allocation optimize_budget returns (recommendation plus top-up) costs at
\* most the derived budget (roi / 100) * total_value.
C2_OptimizeWithinBudget ==
    call.fn = "optimize_budget" =>
        /\ call.roi >= 0
        /\ (call.result["Pack FOC"] * 38 + call.result["Hookah"] * 400
               + call.result["AF Points"] * 1) * UNIT
             <= RoiShare(call.roi, call.order.total_value)

\* A call whose top-up added to the recommendation, with a Hookah in it.
C2_Witness ==
    /\ call.fn = "optimize_budget"
    /\ call.result["Hookah"] > 0
    /\ call.result # recommend_gift(call.order, call.ctype,
                          calculate_budget_from_roi(call.order, call.roi))

\* C4: for every order with fewer than 10 packs of 50g, fewer than 3 of
\* 250g and fewer than 2 of 1kg, recommend_gift (any customer type and
\* budget) and optimize_budget (any customer type and target ROI) return
\* Pack FOC = 0, Hookah = 0 and AF Points = 0.
C4_IneligibleGetsNothing ==
    /\ call.fn \in {"recommend_gift", "optimize_budget"}
    /\ Ineligible(call.order.quantities)
    => /\ call.result["Pack FOC"] = 0
       /\ call.result["Hookah"] = 0
       /\ call.result["AF Points"] = 0

\* An order one pack short of every threshold, with budget for two Hookahs.
C4_Witness ==
    /\ call.fn = "recommend_gift"
    /\ call.order.quantities = Quantities(9, 2, 1)
    /\ call.ctype = TOBACCO_SHOP
    /\ call.budget > 800 * UNIT

\* C6 as stated: get_eligible_tier returns None if and only if
\* total_grams < 6000; every weight of 6000 g or more resolves to one of
\* Silver, Gold, Diamond, Platinum.
C6_NoneOnlyBelowThreshold ==
    call.fn = "get_eligible_tier" =>
        /\ (call.result = None) <=> (call.total_grams < 6000)
        /\ call.total_grams >= 6000 =>
               call.result \in {"Silver", "Gold", "Diamond", "Platinum"}

\* C7: inside the Gold (66050-120000), Diamond (126050-240000) or Platinum
\* (>= 246050) weight range get_eligible_tier returns that tier when
\* has_1kg_order is true and Silver when it is false; inside 6000-60000 it
\* returns Silver for either flag value.
C7_TierInsideRanges ==
    call.fn = "get_eligible_tier" =>
        LET g == call.total_grams
            inRange == IF 66050 <= g /\ g <= 120000 THEN "Gold"
                       ELSE IF 126050 <= g /\ g <= 240000 THEN "Diamond"
                       ELSE IF g >= 246050 THEN "Platinum"
                       ELSE None
        IN  /\ inRange # None /\ call.has_1kg_order => call.result = inRange
            /\ inRange # None /\ ~call.has_1kg_order => call.result = "Silver"
            /\ 6000 <= g /\ g <= 60000 => call.result = "Silver"

\* A Diamond-range weight without a 1kg pack, degraded to Silver.
C7_Witness ==
    /\ call.fn = "get_eligible_tier"
    /\ call.total_grams = 240000
    /\ ~call.has_1kg_order
    /\ call.result = "Silver"

\* C9: calculate_budget_from_roi returns exactly
\* (target_roi_percentage / 100) * total_value for every order and ROI
\* percentage, is additive in each argument, and returns 0 when total_value
\* is 0.
C9_BudgetIsRoiShare ==
    call.fn = "calculate_budget_from_roi" =>
        LET tv == call.order.total_value
        IN  /\ (call.roi * (tv % 100)) % 100 = 0
            /\ call.result = call.roi * (tv \div 100) + (call.roi * (tv % 100)) \div 100
            /\ tv = 0 => call.result = 0
            /\ \A r \in RoiSet :
                 calculate_budget_from_roi(call.order, call.roi + r)
                     = call.result + calculate_budget_from_roi(call.order, r)
            /\ \A o \in AlgOrders :
                 calculate_budget_from_roi(
                     [call.order EXCEPT !.total_value = tv + o.total_value],
                     call.roi)
                     = call.result + calculate_budget_from_roi(o, call.roi)

\* A budget that is a fraction of a dollar: 7% of $70.40.
C9_Witness ==
    /\ call.fn = "calculate_budget_from_roi"
    /\ call.roi = 7
    /\ call.order.quantities = Quantities(8, 0, 0)
    /\ call.result = 49280

\* C10: calculate_roi returns 0 whenever budget = 0 or total_value = 0, and
\* otherwise (Pack FOC*38 + Hookah*400 + AF Points*1) / total_value * 100
\* rounded to 2 decimal places (result held in hundredths of a percent).
C10_RoiRounded ==
    call.fn = "calculate_roi" =>
        LET c == call.gifts["Pack FOC"] * 38 + call.gifts["Hookah"] * 400
                   + call.gifts["AF Points"] * 1
            t == call.order.total_value \div 1000
        IN  IF call.budget = 0 \/ call.order.total_value = 0
            THEN call.result = 0
            ELSE /\ call.order.total_value % 1000 = 0
                 /\ (2 * call.result - 1) * t <= 2 * c * 100000
                 /\ 2 * c * 100000 <= (2 * call.result + 1) * t

\* A ROI that was rounded up: the result is above the exact ratio.
C10_Witness ==
    /\ call.fn = "calculate_roi"
    /\ call.budget > 0
    /\ call.order.total_value > 0
    /\ call.gifts["Hookah"] > 0
    /\ call.result * (call.order.total_value \div 1000)
           > (call.gifts["Pack FOC"] * 38 + call.gifts["Hookah"] * 400
                 + call.gifts["AF Points"] * 1) * 100000

\* One more unit of the gift g in the allocation of the recorded call.
OneMore(gifts, g) == [gifts EXCEPT ![g] = @ + 1]

\* C11: calculate_roi is monotonically non-decreasing in each gift quantity:
\* with the order and the budget fixed, one more Pack FOC, Hookah or AF Point
\* never gives a lower ROI.
C11_RoiMonotone ==
    call.fn = "calculate_roi" =>
        \A g \in GiftNames :
            \A r2 \in calculate_roi(call.order, OneMore(call.gifts, g),
                                    call.budget) :
                r2 >= call.result

\* A call with a positive budget and order value where one more unit of every
\* gift gives a strictly higher ROI.
C11_Witness ==
    /\ call.fn = "calculate_roi"
    /\ call.budget > 0
    /\ call.order.total_value > 0
    /\ call.gifts["Pack FOC"] > 0
    /\ \A g \in GiftNames :
           \A r2 \in calculate_roi(call.order, OneMore(call.gifts, g),
                                   call.budget) :
               r2 > call.result

\* The recorded allocation without its Cash Back % entry.
WithoutCashback(gifts) == [g \in GiftNames |-> gifts[g]]

\* C12 as stated: calculate_roi counts Cash Back %, p percent of cash back
\* adding p percentage points, so the ROI differs from that of the same
\* allocation without cash back.
C12_CashbackCounted ==
    (/\ call.fn = "calculate_roi"
     /\ "Cash Back %" \in DOMAIN call.gifts
     /\ call.gifts["Cash Back %"] > 0
     /\ call.budget > 0
     /\ call.order.total_value > 0) =>
        \E r0 \in calculate_roi(call.order, WithoutCashback(call.gifts),
                                call.budget) :
            call.result = r0 + call.gifts["Cash Back %"] * 10

\* C12: calculate_roi ignores Cash Back %: the ROI of an allocation with a
\* Cash Back % entry is the ROI of its Pack FOC, Hookah and AF Points alone,
\* so two allocations that differ only in Cash Back % have the same ROI.
C12_CashbackIgnored ==
    (call.fn = "calculate_roi" /\ "Cash Back %" \in DOMAIN call.gifts) =>
        /\ call.result \in calculate_roi(call.order,
                                         WithoutCashback(call.gifts),
                                         call.budget)
        /\ \A c \in {0, 5, 300} :
              call.result \in calculate_roi(call.order,
                  [call.gifts EXCEPT !["Cash Back %"] = c], call.budget)

\* A call with 30% of cash back whose result is the ROI of the other gifts.
C12_Witness ==
    /\ call.fn = "calculate_roi"
    /\ "Cash Back %" \in DOMAIN call.gifts
    /\ call.gifts["Cash Back %"] = 300
    /\ call.budget > 0
    /\ call.order.total_value > 0
    /\ call.gifts["Pack FOC"] > 0
    /\ call.result > 0
    /\ call.result < 3000

\* The weighted score 50g*1 + 250g*5 + 1kg*20 of an order.
WeightedScore(quantities) ==
    quantities["50g"] + 5 * quantities["250g"] + 20 * quantities["1kg"]

\* The Hookah count the rule of C18 gives.
RuleHookah(quantities, ctype, budget) ==
    IF ctype = TOBACCO_SHOP /\ budget > 800 * UNIT
          /\ WeightedScore(quantities) > 100
    THEN 2
    ELSE IF ctype = TOBACCO_SHOP /\ budget >= 400 * UNIT
               /\ WeightedScore(quantities) > 50
    THEN 1
    ELSE 0

\* C18: for a gift-eligible order recommend_gift returns Hookah = 2 for a
\* tobacco shop with budget > 800 and weighted score > 100, else Hookah = 1
\* for a tobacco shop with budget >= 400 and score > 50, else Hookah = 0;
\* then, with r = budget - 400*Hookah, Pack FOC = floor(0.7*r/38) and
\* AF Points = floor(0.3*r).  Budget 20 gives Pack FOC 0, AF Points 6 and
\* Hookah 0.
C18_RecommendFormula ==
    (call.fn = "recommend_gift" /\ ~Ineligible(call.order.quantities)) =>
        LET h == RuleHookah(call.order.quantities, call.ctype, call.budget)
            r == call.budget - 400 * UNIT * h
        IN  /\ call.result["Hookah"] = h
            /\ call.result["Pack FOC"] = (7 * r) \div (380 * UNIT)
            /\ call.result["AF Points"] = (3 * r) \div (10 * UNIT)
            /\ call.budget = 20 * UNIT => call.result = Gifts(0, 0, 6)

\* A tobacco shop with weighted score above 100 and budget 1000 gets
\* Hookah 2, Pack FOC 3 and AF Points 60.
C18_Witness ==
    /\ call.fn = "recommend_gift"
    /\ ~Ineligible(call.order.quantities)
    /\ call.ctype = TOBACCO_SHOP
    /\ WeightedScore(call.order.quantities) > 100
    /\ call.budget = 1000 * UNIT
    /\ call.result = Gifts(3, 2, 60)

\* What the allocation of the recorded optimize_budget call leaves unspent.
Unspent ==
    RoiShare(call.roi, call.order.total_value)
        - (call.result["Pack FOC"] * 38 + call.result["Hookah"] * 400
             + call.result["AF Points"] * 1) * UNIT

\* C19: optimize_budget is strictly budget-exhausting: for every
\* gift-eligible order and target ROI the unspent amount budget -
\* (Pack FOC*38 + Hookah*400 + AF Points*1) is strictly less than 1, so no
\* further whole AF Point is affordable.
C19_UnspentBelowOne ==
    (call.fn = "optimize_budget" /\ ~Ineligible(call.order.quantities)) =>
        Unspent < 1 * UNIT

\* The AF Points the top-up of the recorded optimize_budget call added to
\* the initial recommendation.
PointsAdded ==
    call.result["AF Points"]
        - recommend_gift(call.order, call.ctype,
                         RoiShare(call.roi, call.order.total_value))["AF Points"]

\* C20: the top-up of optimize_budget always prefers Pack FOC over AF
\* Points: whenever the remainder left by the initial recommendation can pay
\* for at least one Pack FOC (remainder >= 38) Pack FOC units are added
\* first, so the AF Points added by the top-up are always fewer than 38.
C20_PointsAddedBelowPack ==
    (call.fn = "optimize_budget" /\ ~Ineligible(call.order.quantities)) =>
        PointsAdded < 38

\* The recommendation optimize_budget starts from in the recorded call.
Recommended ==
    recommend_gift(call.order, call.ctype,
                   RoiShare(call.roi, call.order.total_value))

\* C21: the top-up of optimize_budget is additive and never revisits the
\* Hookah: for the same order, customer type and derived budget its Hookah
\* count equals that of recommend_gift, and its Pack FOC and AF Points
\* counts are each at least those of recommend_gift.
C21_TopUpAdditive ==
    call.fn = "optimize_budget" =>
        /\ call.result["Hookah"] = Recommended["Hookah"]
        /\ call.result["Pack FOC"] >= Recommended["Pack FOC"]
        /\ call.result["AF Points"] >= Recommended["AF Points"]

\* A call whose recommendation holds a Hookah, packs and points and whose
\* top-up added a Pack FOC.
C21_Witness ==
    /\ call.fn = "optimize_budget"
    /\ Recommended["Hookah"] > 0
    /\ Recommended["AF Points"] > 0
    /\ call.result["Pack FOC"] > Recommended["Pack FOC"]

\* The budget of the recorded recommend_gift or optimize_budget call.
CallBudget ==
    IF call.fn = "recommend_gift" THEN call.budget
    ELSE RoiShare(call.roi, call.order.total_value)

\* C26: in every allocation returned by recommend_gift or optimize_budget,
\* Hookah is 0 for a RETAILER, in {0, 1, 2} for a TOBACCO_SHOP, and
\* Hookah*400 never exceeds the budget.
C26_HookahBounds ==
    call.fn \in {"recommend_gift", "optimize_budget"} =>
        /\ call.ctype = RETAILER => call.result["Hookah"] = 0
        /\ call.result["Hookah"] \in {0, 1, 2}
        /\ call.result["Hookah"] * 400 * UNIT <= CallBudget

\* A tobacco shop with a heavy order and a budget one unit above 800 gets
\* two Hookahs from recommend_gift.
C26_Witness ==
    /\ call.fn = "recommend_gift"
    /\ call.ctype = TOBACCO_SHOP
    /\ call.budget = 800 * UNIT + 1
    /\ WeightedScore(call.order.quantities) > 100
    /\ call.result["Hookah"] = 2

-----------------------------------------------------------------------------
(* Properties of the session (Spec).                                       *)

\* recalculate_gifts has just returned, having found the selected offer.
AfterRecalculate ==
    /\ pc = "top"
    /\ last_call.op = "recalculate_gifts"
    /\ last_call.found

SelectedBudget ==
    FindOffer(session_state.offers, session_state.last_offer_tier).budget

\* Hookah*400 + Pack FOC*38 + AF Points*1 + (Cash Back %/100)*order_value
\* of the sliders, in money units (Cash Back % is held in tenths).
SliderCost ==
    LET v == CurrentValues(session_state)
    IN  (v["Hookah"] * 400 + v["Pack FOC"] * 38 + v["AF Points"] * 1) * UNIT
          + (v["Cash Back %"] * (session_state.order_data.total_value \div 1000))

\* Cost of the changed gift at the value the slider was moved to.
ChangedCost ==
    LET g == last_call.changed
        v == last_call.before[g]
    IN  IF g = "Hookah" THEN v * 400 * UNIT
        ELSE IF g = "Pack FOC" THEN v * 38 * UNIT
        ELSE IF g = "AF Points" THEN v * UNIT
        ELSE v * (session_state.order_data.total_value \div 1000)

\* C3 as stated: after any recalculate_gifts call the total cost of the
\* allocation, Cash Back included, is at most the selected offer's budget
\* plus 1.
C3_TotalWithinBudgetPlusOne ==
    AfterRecalculate => SliderCost <= SelectedBudget + 1 * UNIT

\* C3, amended: after a recalculate_gifts call, if the changed gift alone
\* costs more than the offer's budget the total cost is the changed gift's
\* cost; otherwise the total cost is at most the budget plus 0.05% of the
\* order value (Cash Back % is rounded to the nearest 0.1, not floored).
C3_TotalWithinBudgetOrChangedCost ==
    AfterRecalculate =>
        IF ChangedCost > SelectedBudget
        THEN SliderCost = ChangedCost
        ELSE SliderCost - SelectedBudget
                 <= session_state.order_data.total_value \div 2000

\* A rebalance that stayed inside the budget for the unit gifts and went
\* more than 1 over it by rounding Cash Back % up.
C3_Witness ==
    /\ AfterRecalculate
    /\ ~last_call.early
    /\ ChangedCost <= SelectedBudget
    /\ SliderCost > SelectedBudget + 1 * UNIT
    /\ session_state.cashback_slider > 0

\* C8: when recalculate_gifts is called with a changed gift whose new cost
\* is at least the offer budget (remaining budget <= 0), the three other
\* gift types are set to 0 whatever they were, and the call returns.
C8_OverBudgetZeroesOthers ==
    AfterRecalculate /\ ChangedCost >= SelectedBudget =>
        /\ \A g \in AllGiftNames \ {last_call.changed} :
               CurrentValues(session_state)[g] = 0
        /\ CurrentValues(session_state)[last_call.changed]
               = last_call.before[last_call.changed]

\* An over-budget move made while the three other gifts were above zero.
C8_Witness ==
    /\ AfterRecalculate
    /\ ChangedCost > SelectedBudget
    /\ \A g \in AllGiftNames \ {last_call.changed} : last_call.before[g] > 0
    /\ \A g \in AllGiftNames \ {last_call.changed} :
           CurrentValues(session_state)[g] = 0

\* update_gifts has just run in the current run of main().
AfterUpdateGifts ==
    /\ pc = "gifts"
    /\ last_call.op = "update_gifts"

LowGrams == {g \in GramSet : g < 6000}

LowGramsHaveNoTier ==
    \A g \in LowGrams, has_1kg_order \in BOOLEAN :
        get_eligible_tier(g, has_1kg_order) = None

\* C5: for every total_grams < 6000 and both values of the has-1kg flag
\* get_eligible_tier returns None, and update_gifts run on such an order
\* leaves the offers list empty, even when the pack-count gift-eligibility
\* predicate holds.
C5_BelowThresholdNoOffers ==
    /\ LowGramsHaveNoTier
    /\ AfterUpdateGifts
         /\ total_grams(session_state.order_data.quantities) < 6000
       => /\ session_state.eligible_tier = None
          /\ session_state.offers = <<>>

\* update_gifts ran on 119 packs of 50g: 5950 g, gift-eligible by count.
C5_Witness ==
    /\ AfterUpdateGifts
    /\ total_grams(session_state.order_data.quantities) = 5950
    /\ is_eligible(session_state.order_data.quantities)
    /\ session_state.eligible_tier = None
    /\ session_state.offers = <<>>

\* The tier ladder and its target ROI percentages, as the claim lists them.
TierLadder == <<"Silver", "Gold", "Diamond", "Platinum">>
LadderRoi == <<5, 7, 9, 13>>

\* The position of a tier on the ladder, 0 for no tier.
LadderIndex(tier) ==
    IF tier \in {TierLadder[i] : i \in 1..4}
    THEN CHOOSE i \in 1..4 : TierLadder[i] = tier
    ELSE 0

\* C14: after update_gifts the offers list is exactly the prefix of
\* [Silver, Gold, Diamond, Platinum] ending at the order's eligible tier
\* (empty when the tier is None), in that order, with target ROI 5, 7, 9 and
\* 13 percent and each budget equal to its ROI percent of the order total
\* value; no offer of a previous order remains in the list.
C14_OffersArePrefix ==
    AfterUpdateGifts =>
        LET offs == session_state.offers
            tv == session_state.order_data.total_value
        IN  /\ session_state.eligible_tier \in
                   {None} \cup {TierLadder[i] : i \in 1..4}
            /\ Len(offs) = LadderIndex(session_state.eligible_tier)
            /\ \A i \in 1..Len(offs) :
                  /\ offs[i].name = TierLadder[i]
                  /\ offs[i].roi_percentage = LadderRoi[i]
                  /\ offs[i].budget = RoiShare(LadderRoi[i], tv)

\* update_gifts ran on a Gold order while the tier selector still shows the
\* four offers of the previous, Platinum order.
C14_Witness ==
    /\ AfterUpdateGifts
    /\ session_state.eligible_tier = "Gold"
    /\ Len(session_state.offers) = 2
    /\ session_state.offers[2].budget > 0
    /\ Len(tier_select.options) = 4

\* Every order that fails the pack-count predicate: at most 9 packs of 50g,
\* 2 of 250g and 1 of 1kg.
BelowPackCounts ==
    {Quantities(a, b, c) : a \in 0..9, b \in 0..2, c \in 0..1}

BelowPackCountsHaveNoTier ==
    \A q \in BelowPackCounts :
        get_eligible_tier(total_grams(q), q["1kg"] > 0) = None

\* C15: offers are generated only when both gates pass: if update_gifts
\* produces a non-empty offers list (the tier is not None) then the order
\* satisfies the pack-count predicate 50g >= 10 or 250g >= 3 or 1kg >= 2;
\* no order below all three pack counts gets a tier.
C15_OffersImplyPackCounts ==
    /\ BelowPackCountsHaveNoTier
    /\ (AfterUpdateGifts /\ session_state.offers # <<>>) =>
          LET q == session_state.order_data.quantities
          IN  /\ session_state.eligible_tier # None
              /\ (q["50g"] >= 10 \/ q["250g"] >= 3 \/ q["1kg"] >= 2)

\* update_gifts made offers for an order that passes the pack-count predicate
\* by its 1kg packs alone.
C15_Witness ==
    /\ AfterUpdateGifts
    /\ session_state.offers # <<>>
    /\ session_state.order_data.quantities["50g"] < 10
    /\ session_state.order_data.quantities["250g"] < 3
    /\ session_state.order_data.quantities["1kg"] >= 2

\* The selected offer of a session state.
SelectedOffer(ss) == FindOffer(ss.offers, ss.last_offer_tier)

\* C16: a recalculate_gifts call never changes the selected offer's budget or
\* target ROI percentage, and never changes the quantity of the gift type
\* named as changed; only the other gift types' quantities may change.
C16_RecalculateFrame ==
    [][(pc = "idle" /\ last_call'.op = "recalculate_gifts") =>
          /\ CurrentValues(session_state')[last_call'.changed]
                 = last_call'.before[last_call'.changed]
          /\ session_state'.last_offer_tier = session_state.last_offer_tier
          /\ last_call'.found =>
                /\ SelectedOffer(session_state').budget
                       = SelectedOffer(session_state).budget
                /\ SelectedOffer(session_state').roi_percentage
                       = SelectedOffer(session_state).roi_percentage]_vars

\* recalculate_gifts ran to its end and gave another gift a new quantity.
C16_Witness ==
    /\ AfterRecalculate
    /\ ~last_call.early
    /\ CurrentValues(session_state)[last_call.changed]
           = last_call.before[last_call.changed]
    /\ \E g \in AllGiftNames \ {last_call.changed} :
           CurrentValues(session_state)[g] # last_call.before[g]
    /\ SelectedOffer(session_state).budget > 0

\* The ROI values of the allocation on the sliders, in hundredths of a
\* percent: by calculate_roi, and with the Cash Back cost counted.
NewAllocationRoi ==
    calculate_roi(session_state.order_data, CurrentValues(session_state),
                  SelectedBudget)
        \cup RoundNearest(SliderCost, 100 * 100,
                          session_state.order_data.total_value)

\* C17: after an interactive edit is processed by recalculate_gifts, the
\* edited offer's actual_roi is recomputed: it equals the ROI of the new
\* allocation (total gift cost / order value * 100), not the value computed
\* when the offer was generated.
C17_ActualRoiRecomputed ==
    AfterRecalculate =>
        SelectedOffer(session_state).actual_roi \in NewAllocationRoi

\* C22: after every recalculate_gifts call that found a selected offer,
\* the budget-exhaustion branch included, the persisted allocation
\* adjusted_gifts equals the current quantities of all four gift types.
C22_AdjustedGiftsPersisted ==
    AfterRecalculate =>
        \A g \in AllGiftNames :
            Get(session_state.adjusted_gifts, g)
                = CurrentValues(session_state)[g]

\* Every gift but the changed one stood at 0 when recalculate_gifts began.
OthersWereZero ==
    \A g \in AllGiftNames \ {last_call.changed} : last_call.before[g] = 0

\* What the selected offer's budget leaves after the changed gift.
RemainingAfterChanged == SelectedBudget - ChangedCost

\* C23: in recalculate_gifts, when every other gift has zero prior cost and
\* the remaining budget r is positive, the others are filled in fixed
\* priority order: Hookah = min(floor(r/400), 2) only for a tobacco shop with
\* r >= 400; then Pack FOC = floor(r'/38) of what is left; then AF Points =
\* floor of what is left after packs; then Cash Back % = min(30,
\* rest/order_value*100) rounded to one decimal, each step consuming budget
\* before the next.
C23_PriorityOrder ==
    (AfterRecalculate /\ ~last_call.early /\ OthersWereZero) =>
        LET ch == last_call.changed
            ov == session_state.order_data.total_value
            r  == RemainingAfterChanged
            v  == CurrentValues(session_state)
            h  == IF ch = "Hookah" THEN last_call.before[ch]
                  ELSE IF session_state.customer_type = TOBACCO_SHOP
                          /\ r >= 400 * UNIT
                  THEN Min(r \div (400 * UNIT), 2) ELSE 0
            r1 == IF ch = "Hookah" THEN r ELSE r - h * 400 * UNIT
            p  == IF ch = "Pack FOC" THEN last_call.before[ch]
                  ELSE r1 \div (38 * UNIT)
            r2 == IF ch = "Pack FOC" THEN r1 ELSE r1 - p * 38 * UNIT
            a  == IF ch = "AF Points" THEN last_call.before[ch]
                  ELSE r2 \div UNIT
            r3 == IF ch = "AF Points" THEN r2 ELSE r2 - a * UNIT
        IN  /\ r > 0
            /\ v["Hookah"] = h
            /\ v["Pack FOC"] = p
            /\ v["AF Points"] = a
            /\ IF ch = "Cash Back %"
               THEN v[ch] = last_call.before[ch]
               ELSE v["Cash Back %"] \in
                        {Min(300, t) : t \in RoundNearest(r3, 1000, ov)}

\* The Cash Back slider was moved while the others stood at 0, and a tobacco
\* shop got two Hookahs, then packs, then points.
C23_Witness ==
    /\ AfterRecalculate
    /\ ~last_call.early
    /\ OthersWereZero
    /\ last_call.changed = "Cash Back %"
    /\ CurrentValues(session_state)["Hookah"] = 2
    /\ CurrentValues(session_state)["Pack FOC"] > 0
    /\ CurrentValues(session_state)["AF Points"] > 0

\* Cost of gift g at the values recalculate_gifts began with, in money units.
PriorCost(g) ==
    LET v == last_call.before[g]
    IN  IF g = "Hookah" THEN v * 400 * UNIT
        ELSE IF g = "Pack FOC" THEN v * 38 * UNIT
        ELSE IF g = "AF Points" THEN v * UNIT
        ELSE v * (session_state.order_data.total_value \div 1000)

PriorOtherCost ==
    PriorCost("Hookah") + PriorCost("Pack FOC") + PriorCost("AF Points")
        + PriorCost("Cash Back %") - PriorCost(last_call.changed)

\* floor of r * (prior cost of g / total prior cost of the others).
ShareOf(g) == MulDiv(RemainingAfterChanged, PriorCost(g), PriorOtherCost)[1]

\* C24: in recalculate_gifts, when the other gifts have positive total prior
\* cost and the remaining budget r is positive, each other gift g gets
\* a = r * (prior cost of g / total prior cost of the others): Hookah =
\* min(floor(a/400), 2) if a >= 400 else 0, Pack FOC = floor(a/38), AF Points
\* = floor(a), Cash Back % = min(30, a/order_value*100) rounded to one
\* decimal; so a gift whose prior quantity was 0 stays 0 and the unit-counted
\* other gifts together cost at most r.
C24_ProportionalShares ==
    (AfterRecalculate /\ ~last_call.early /\ ~OthersWereZero) =>
        LET ch == last_call.changed
            v  == CurrentValues(session_state)
            others == AllGiftNames \ {ch}
        IN  /\ RemainingAfterChanged > 0
            /\ PriorOtherCost > 0
            /\ v[ch] = last_call.before[ch]
            /\ "Hookah" \in others =>
                  v["Hookah"] = IF ShareOf("Hookah") >= 400 * UNIT
                                THEN Min(ShareOf("Hookah") \div (400 * UNIT), 2)
                                ELSE 0
            /\ "Pack FOC" \in others =>
                  v["Pack FOC"] = ShareOf("Pack FOC") \div (38 * UNIT)
            /\ "AF Points" \in others =>
                  v["AF Points"] = ShareOf("AF Points") \div UNIT
            /\ "Cash Back %" \in others =>
                  v["Cash Back %"] \in
                      {Min(300, t) :
                          t \in RoundNearest(RemainingAfterChanged,
                                             last_call.before["Cash Back %"],
                                             PriorOtherCost)}
            /\ \A g \in others : last_call.before[g] = 0 => v[g] = 0
            /\ ((IF "Hookah" \in others THEN v["Hookah"] * 400 ELSE 0)
                  + (IF "Pack FOC" \in others THEN v["Pack FOC"] * 38 ELSE 0)
                  + (IF "AF Points" \in others THEN v["AF Points"] ELSE 0))
                     * UNIT <= RemainingAfterChanged

\* The remaining budget was shared between two gifts that had a cost, and a
\* third that stood at 0 stayed at 0.
C24_Witness ==
    /\ AfterRecalculate
    /\ ~last_call.early
    /\ \E g1, g2, g3 \in AllGiftNames \ {last_call.changed} :
          /\ g1 # g2
          /\ last_call.before[g1] > 0
          /\ last_call.before[g2] > 0
          /\ last_call.before[g3] = 0
          /\ CurrentValues(session_state)[g1] > last_call.before[g1]
          /\ CurrentValues(session_state)[g2] > 0
          /\ CurrentValues(session_state)[g3] = 0

\* C25: maximum caps are honoured by every rebalance: after any
\* recalculate_gifts call a Hookah quantity that was not the changed gift is
\* at most 2, a Cash Back % that was not the changed gift is at most 30, and
\* all recomputed quantities are non-negative.
C25_CapsHonoured ==
    AfterRecalculate =>
        LET v == CurrentValues(session_state)
        IN  /\ last_call.changed # "Hookah" => v["Hookah"] <= 2
            /\ last_call.changed # "Cash Back %" => v["Cash Back %"] <= 300
            /\ \A g \in AllGiftNames \ {last_call.changed} : v[g] >= 0

\* The budget left after the changed gift pays for three Hookahs or more and
\* the rebalance gave two.
C25_Witness ==
    /\ AfterRecalculate
    /\ ~last_call.early
    /\ last_call.changed # "Hookah"
    /\ last_call.before["Hookah"] = 0
    /\ RemainingAfterChanged >= 3 * 400 * UNIT
    /\ CurrentValues(session_state)["Hookah"] = 2

\* C27: after any sequence of order calculations, customer-type changes and
\* rebalances in which the Hookah is never the edited gift while the
\* customer is a retailer, a Hookah quantity above 0 in the current
\* allocation implies that the customer type is TOBACCO_SHOP.
C27_RetailerHoldsNoHookah ==
    CurrentValues(session_state)["Hookah"] > 0 =>
        session_state.customer_type = TOBACCO_SHOP

\* The achieved ROI of the offer of each tier, for each sample order and
\* customer type, is at most the tier's target.
SampleOffersWithinTarget ==
    \A order \in AlgOrders, ctype \in CustomerType, i \in 1..4 :
        \A r \in OfferRoiChoices(order, ctype, TierLadder[i]) :
            r <= LadderRoi[i] * 100

\* C28: for every offer generated by update_gifts the achieved ROI never
\* exceeds the target ROI: offer.actual_roi <= offer.roi_percentage.
C28_ActualRoiWithinTarget ==
    /\ \A i \in 1..Len(session_state.offers) :
          session_state.offers[i].actual_roi
              <= session_state.offers[i].roi_percentage * 100
    /\ SampleOffersWithinTarget

\* update_gifts made four offers, each achieving within 0.05 of its target.
C28_Witness ==
    /\ AfterUpdateGifts
    /\ Len(session_state.offers) = 4
    /\ \A i \in 1..4 :
          /\ session_state.offers[i].actual_roi
                 <= session_state.offers[i].roi_percentage * 100
          /\ session_state.offers[i].actual_roi
                 >= session_state.offers[i].roi_percentage * 100 - 5

\* The run of main() that processed the reset_allocation flag has ended;
\* last_call.edited tells whether it found the sliders away from
\* original_gifts.
AfterAllocationReset == last_call.op = "reset_allocation"

\* C29: round trip of edit and reset: after an offer tier is selected, any
\* sequence of recalculate_gifts edits followed by "Reset to Original
\* Allocation" and the rerun that processes the flag leaves Hookah, Pack FOC
\* and AF Points equal to the selected offer's allocation, Cash Back % equal
\* to 0, adjusted_gifts equal to original_gifts, and the reset flag and the
\* temp values cleared.
C29_ResetRestoresOffer ==
    AfterAllocationReset =>
        LET gifts == SelectedOffer(session_state).gifts
        IN  /\ session_state.hookah_slider = gifts["Hookah"]
            /\ session_state.pack_foc_slider = gifts["Pack FOC"]
            /\ session_state.af_points_slider = gifts["AF Points"]
            /\ session_state.cashback_slider = 0
            /\ session_state.adjusted_gifts = session_state.original_gifts
            /\ ~session_state.reset_allocation
            /\ session_state.temp = AbsentDict

\* The reset found sliders that edits had moved away from the offer, and put
\* back an allocation with packs and points.
C29_Witness ==
    /\ AfterAllocationReset
    /\ last_call.edited
    /\ session_state.cashback_slider = 0
    /\ session_state.pack_foc_slider > 0
    /\ session_state.pack_foc_slider
           = SelectedOffer(session_state).gifts["Pack FOC"]
    /\ session_state.af_points_slider
           = SelectedOffer(session_state).gifts["AF Points"]

\* recalculate_gifts would find no selected offer in this session state.
NoOfferMatches(ss) ==
    \/ ss.last_offer_tier = Absent
    \/ ss.adjusted_gifts = AbsentDict
    \/ FindOffer(ss.offers, ss.last_offer_tier) = NoOffer

\* C30: a new order calculation discards all interactive edit state: after
\* update_gifts the keys last_offer_tier, adjusted_gifts, original_gifts and
\* the four gift quantity keys are absent from the session state, so no
\* manually adjusted quantity of a previous order survives; and
\* recalculate_gifts invoked while no offer matches last_offer_tier changes
\* nothing.
C30_CalculationDiscardsEdits ==
    /\ AfterUpdateGifts =>
          /\ session_state.last_offer_tier = Absent
          /\ session_state.adjusted_gifts = AbsentDict
          /\ session_state.original_gifts = AbsentDict
          /\ session_state.hookah_slider = AbsentSlider
          /\ session_state.pack_foc_slider = AbsentSlider
          /\ session_state.af_points_slider = AbsentSlider
          /\ session_state.cashback_slider = AbsentSlider
    /\ NoOfferMatches(session_state) =>
          \A g \in AllGiftNames :
              \A out \in recalculate_gifts(session_state, g) :
                  out.ss = session_state

\* update_gifts ran on a new order while the sliders held an allocation that
\* an edit of the previous order had made.
C30_Witness ==
    /\ AfterUpdateGifts
    /\ last_call.edited
    /\ session_state.offers # <<>>
    /\ session_state.cashback_slider = AbsentSlider
    /\ session_state.pack_foc_slider = AbsentSlider
    /\ session_state.adjusted_gifts = AbsentDict

====
